---- MODULE Spec2Model ----
(***************************************************************************)
(* smalldiffusion: noise schedules (Schedule.sample_sigmas), the           *)
(* generalized sampler (samples / DDIM_inversion), the denoiser models'    *)
(* rand_input and sigma-shape checks, and the training loop.               *)
(*                                                                         *)
(* Numbers.  A sigma is a float in the code; here sigmas are drawn from    *)
(* SigmaVals, where only their order and identity matter for the schedule  *)
(* and where the sampler's arithmetic (mu in {0, 1/2}) stays exact in      *)
(* quarters.  The index arithmetic of sample_sigmas is done in exact       *)
(* rationals with numpy's round-half-to-even; for N <= 5 and steps <= 11   *)
(* the double-precision evaluation of len*(1 - k/steps) rounds to the same *)
(* integers (from N = 6, steps = 12 on, ties can differ in the last bit).  *)
(* The sampler's update is computed in exact reals: a tensor element is a  *)
(* rational part plus a sum of square roots times noise values, or NaN.    *)
(***************************************************************************)
EXTENDS Integers, Sequences, FiniteSets, TLC

VARIABLES
    \* ---- Schedule (diffusion.py:13-54)
    sigmas,      \* Schedule.sigmas, a sequence of stored noise levels
    steps,       \* argument of the last sample_sigmas call (-1: none yet)
    indices,     \* the index list built at diffusion.py:40-41
    out,         \* the value returned at diffusion.py:43
    \* ---- torch's global random generator (model.py:25-27)
    rng,
    \* ---- one call of samples() or DDIM_inversion() (diffusion.py:142-237)
    fn,          \* which generator function was called
    model,       \* the class of the model argument
    trajectory,  \* the sigmas argument: N+1 values for N sampling steps
    gam,         \* the gam argument
    mu2,         \* twice the mu argument (mu = mu2/2)
    xtArg,       \* the xt argument as passed (None or a tensor)
    batchsizeArg,\* the batchsize argument as passed
    batchsize,   \* the local batchsize
    xt,          \* the local xt
    eps,         \* the local eps (None before the first transition)
    i,           \* number of transitions completed
    pc,          \* "created", "suspended" (at a yield), "finished", "raised"
    err,         \* the exception that ended the generator, "" if none
    yielded,     \* every tensor yielded so far, in order
    modelCalls,  \* number of model(xt, sig) calls made
    noiseLog,    \* every tensor model.rand_input returned, in order
    epsLog,      \* every tensor the model returned, in order
    otherDraws,  \* random draws other code made since the last next()
    requests,    \* number of next() calls the consumer has made
    \* ---- one call model(x, sigma) (model.py:10-17, 49-50, 73-74, 225-229)
    fwModel,     \* the class of the model called
    fwBatch,     \* x.shape[0]
    fwShape,     \* sigma.shape
    fwResult,    \* "none" before the call, then "ok" or "AssertionError"
    \* ---- one call of training_loop() (diffusion.py:112-136)
    tPc,         \* "created", "atYield" (suspended at line 134), "finished"
    epochs,      \* the epochs argument
    loaderLen,   \* number of batches the loader gives per epoch
    x0Batch,     \* x0.shape[0] of every batch
    epoch,       \* index of the epoch being run
    batch,       \* index in the epoch of the batch being run
    records,     \* every record yielded so far, in order
    updates,     \* number of optimizer.step() calls made
    lastOps,     \* what the last next() executed, in order
    \* ---- one call of generate_train_sample(x0, schedule) (diffusion.py:91-103)
    x0Shape,     \* x0.shape (<<>> before the call)
    drawn,       \* the indices torch.randint gave in sample_batch
    sigmaVals,   \* the values of the returned sigma, one per example
    sigmaShape,  \* the shape of the returned sigma
    epsShape     \* the shape of the returned eps

schedVars == <<sigmas, steps, indices, out>>
sampVars == <<fn, model, trajectory, gam, mu2, xtArg, batchsizeArg, batchsize, xt, eps, i,
              pc, err, yielded, modelCalls, noiseLog, epsLog, otherDraws,
              requests>>
fwVars == <<fwModel, fwBatch, fwShape, fwResult>>
trainVars == <<tPc, epochs, loaderLen, x0Batch, epoch, batch, records, updates, lastOps>>
gtsVars == <<x0Shape, drawn, sigmaVals, sigmaShape, epsShape>>
vars == <<schedVars, rng, sampVars, fwVars, trainVars, gtsVars>>

\* ------------------------------------------------------------------ bounds
MaxN == 4          \* longest Schedule
MaxSteps == 10     \* largest steps argument of sample_sigmas
MaxTraj == 3       \* most sampling steps in a sigma trajectory
MaxBatch == 2      \* largest batch size
RngMod == 16       \* number of states of the modelled random generator
MaxOther == 1      \* most random draws other code makes between two next()
MaxRank == 3       \* highest rank of a sigma tensor
MaxDim == 3        \* largest size of one dimension, and of the batch
MaxEpochs == 4     \* largest epochs argument
MaxLoader == 4     \* most batches per epoch
MaxX0Rank == 4     \* highest rank of a data batch x0

SigmaVals == {1, 2, 4, 8}

\* ------------------------------------------------------------ Schedule
Abs(x) == IF x < 0 THEN -x ELSE x

\* np.ndarray.round(): nearest integer, ties to the even one; num/den >= 0
RoundHalfEven(num, den) ==
    LET q == num \div den
        r == num % den
    IN  IF 2 * r > den THEN q + 1
        ELSE IF 2 * r < den THEN q
        ELSE IF q % 2 = 0 THEN q ELSE q + 1

\* Schedule.__getitem__ on one integer index: torch indexing, where a
\* negative index ix counts from the end (ix + N); 0-based in, 1-based inside
GetItem(s, ix) == IF ix < 0 THEN s[ix + Len(s) + 1] ELSE s[ix + 1]

SpreadIndices(N, st) ==
    [k \in 1..st |-> RoundHalfEven((N - 1) * (st - (k - 1)), st)]

\* diffusion.py:40-41: (len(self) * (1 - arange(0, steps)/steps)).round() - 1
SampleIndices(N, st) ==
    [k \in 1..st |-> RoundHalfEven(N * (st - (k - 1)), st) - 1]

SampleSigmasNoFinal(s, st) ==
    LET idx == SampleIndices(Len(s), st)
    IN  [k \in 1..Len(idx) |-> GetItem(s, idx[k])]

\* diffusion.py:43: self[indices + [0]]
SampleSigmas(s, st) ==
    LET idx == SampleIndices(Len(s), st) \o <<0>>
    IN  [k \in 1..Len(idx) |-> GetItem(s, idx[k])]

\* ------------------------------------------------------- random generator
\* torch's generator is modelled as a full-period congruential generator
\* on RngMod states; a standard-normal draw is a small integer.
seed == 42

\* torch.manual_seed(s)
ManualSeed(s) == s % RngMod

NextRng(r) == (5 * r + 3) % RngMod

RECURSIVE Advance(_, _)
Advance(r, n) == IF n = 0 THEN r ELSE Advance(NextRng(r), n - 1)

Normal(r) == (r % 5) - 2

\* torch.randn(n values) from generator state r: the values, in order
Randn(r, n) == [k \in 1..n |-> Normal(Advance(r, k))]

\* ----------------------------------------------------------------- models
Models == {"TimeInputMLP", "IdealDenoiser", "DiT"}

\* model.py:32, 68, 176: the classes that inherit ModelMixin
HasRandInput(kind) == kind \in {"IdealDenoiser", "DiT"}

RandInputNoReseed(r, b) == [tensor |-> Randn(r, b), rng |-> Advance(r, b)]

\* ModelMixin.rand_input(batchsize), called with the generator in state r:
\* reseeds, then draws; one value per example
RandInput(r, b) ==
    [tensor |-> Randn(ManualSeed(seed), b), rng |-> Advance(ManualSeed(seed), b)]

\* ---------------------------------------------------------------- tensors
\* A tensor is a sequence with one element per example.  An element is a
\* real number det/4 + sum of sqrt(rad/16)*n over the <<rad, n>> of stoch,
\* or NaN.
None == <<>>
Num(d) == [nan |-> FALSE, det |-> d, stoch |-> <<>>]
NaN == [nan |-> TRUE, det |-> 0, stoch |-> <<>>]

IsSquare(n) == \E r \in 0..n : r * r = n
ISqrt(n) == CHOOSE r \in 0..n : r * r = n

\* (sig_prev/sig**mu)**(1/(1-mu)), in quarters
SigP4IgnoresMu(sig, sig_prev, m2) == (4 * sig_prev) \div sig

SigP4(sig, sig_prev, m2) ==
    IF m2 = 0 THEN 4 * sig_prev ELSE (4 * sig_prev * sig_prev) \div sig

\* sig_prev**2 - sig_p**2, in sixteenths
Rad16(sig, sig_prev, m2) ==
    16 * sig_prev * sig_prev - SigP4(sig, sig_prev, m2) * SigP4(sig, sig_prev, m2)

EpsAvSwapped(e, eprev, g, n) ==
    IF n = 0 THEN e
    ELSE IF e.nan \/ eprev.nan THEN NaN
    ELSE Num(eprev.det * g + e.det * (1 - g))

\* eps * gam + eps_prev * (1-gam) if i > 0 else eps, on one element; n is i
EpsAv(e, eprev, g, n) ==
    IF n = 0 THEN e
    ELSE IF e.nan \/ eprev.nan THEN NaN
    ELSE Num(e.det * g + eprev.det * (1 - g))

\* torch.sqrt makes NaN of a negative number and raises nothing, and NaN
\* spreads through every later sum and product.
\* xt - (sig - sig_p) * eps_av + eta * noise, on one element
Update(x, eav, sig, sig_prev, m2, noise) ==
    LET sp == SigP4(sig, sig_prev, m2)
        rad == Rad16(sig, sig_prev, m2)
    IN  IF x.nan \/ eav.nan \/ rad < 0 THEN NaN
        ELSE IF IsSquare(rad)
             THEN [nan |-> FALSE,
                   det |-> x.det - (4 * sig - sp) * eav.det + ISqrt(rad) * noise,
                   stoch |-> x.stoch]
             ELSE [nan |-> FALSE,
                   det |-> x.det - (4 * sig - sp) * eav.det,
                   stoch |-> Append(x.stoch, <<rad, noise>>)]

SchedIdle == sigmas = <<>> /\ steps = -1 /\ indices = <<>> /\ out = <<>>

FwIdle == fwModel = "" /\ fwBatch = 0 /\ fwShape = <<>> /\ fwResult = "none"

GtsIdle ==
    /\ x0Shape = <<>> /\ drawn = <<>> /\ sigmaVals = <<>> /\ sigmaShape = <<>>
    /\ epsShape = <<>>

TrainIdle ==
    /\ tPc = "idle" /\ epochs = 0 /\ loaderLen = 0 /\ x0Batch = 0
    /\ epoch = 0 /\ batch = 0
    /\ records = <<>> /\ updates = 0 /\ lastOps = <<>>

\* ------------------------------------------------ samples / DDIM_inversion
SampSigmaVals == {1, 2}
\* batch sizes of a sampling run: the batchsize argument and xt.shape[0]
SampBatchSizes == {1, 2}
EpsVals == {0, 1}

\* sigma trajectories: positive values, the last one possibly 0
Trajectories ==
    UNION {{t \in [1..n -> SampSigmaVals \cup {0}] :
               \A k \in 1..(n - 1) : t[k] # 0} : n \in 1..(MaxTraj + 1)}

\* a caller-supplied xt of batch size b: example j holds the number j
XtOf(b) == [j \in 1..b |-> Num(4 * j)]

\* model(xt, sig) for a model whose output on finite input is e everywhere;
\* a NaN input gives a NaN output
ModelOut(x, e) == [j \in 1..Len(x) |-> IF x[j].nan THEN NaN ELSE Num(e)]

SampIdle ==
    /\ fn = "" /\ model = "" /\ trajectory = <<>> /\ gam = 0 /\ mu2 = 0
    /\ xtArg = None /\ batchsizeArg = 0 /\ batchsize = 0 /\ xt = None
    /\ eps = None /\ i = 0
    /\ pc = "idle" /\ err = "" /\ yielded = <<>> /\ modelCalls = 0
    /\ noiseLog = <<>> /\ epsLog = <<>> /\ otherDraws = 0 /\ requests = 0

\* the generator object just created: no line of the body has run
InitSampler ==
    /\ SchedIdle /\ FwIdle /\ TrainIdle /\ GtsIdle
    /\ rng = 0
    /\ fn \in {"samples", "DDIM_inversion"}
    /\ model \in Models
    /\ trajectory \in Trajectories
    /\ gam \in {1, 2}
    /\ mu2 \in {0, 1}
    /\ xtArg \in {None} \cup {XtOf(b) : b \in SampBatchSizes}
    /\ batchsizeArg \in SampBatchSizes
    /\ batchsize = batchsizeArg
    /\ xt = None /\ eps = None /\ i = 0
    /\ pc = "created" /\ err = "" /\ yielded = <<>> /\ modelCalls = 0
    /\ noiseLog = <<>> /\ epsLog = <<>> /\ otherDraws = 0 /\ requests = 0

\* diffusion.py:163-164 without xt: rand_input(batchsize) * sigmas[0]
InitialXt(noise, sig0) == [j \in 1..Len(noise) |-> Num(4 * noise[j] * sig0)]

StartCallsModel ==
    /\ pc = "created"
    /\ requests' = requests + 1
    /\ otherDraws' = 0
    /\ modelCalls' = modelCalls + 1
    /\ IF xtArg = None
       THEN IF HasRandInput(model)
            THEN LET ri == RandInput(rng, batchsize)
                 IN  /\ xt' = InitialXt(ri.tensor, trajectory[1])
                     /\ rng' = ri.rng
                     /\ noiseLog' = Append(noiseLog, ri.tensor)
                     /\ yielded' = <<xt'>>
                     /\ pc' = "suspended"
                     /\ UNCHANGED <<batchsize, err>>
            ELSE /\ pc' = "raised"
                 /\ err' = "AttributeError"
                 /\ UNCHANGED <<xt, rng, noiseLog, yielded, batchsize>>
       ELSE /\ batchsize' = Len(xtArg)
            /\ xt' = xtArg
            /\ yielded' = <<xt'>>
            /\ pc' = "suspended"
            /\ UNCHANGED <<rng, noiseLog, err>>
    /\ UNCHANGED <<schedVars, fwVars, trainVars, gtsVars, batchsizeArg, fn, model, trajectory, gam, mu2, xtArg, eps, i,
                   epsLog>>

\* first next(): diffusion.py:162-173 (213-220), up to the first yield
Start ==
    /\ pc = "created"
    /\ requests' = requests + 1
    /\ otherDraws' = 0
    /\ IF xtArg = None
       THEN IF HasRandInput(model)
            THEN LET ri == RandInput(rng, batchsize)
                 IN  /\ xt' = InitialXt(ri.tensor, trajectory[1])
                     /\ rng' = ri.rng
                     /\ noiseLog' = Append(noiseLog, ri.tensor)
                     /\ yielded' = <<xt'>>
                     /\ pc' = "suspended"
                     /\ UNCHANGED <<batchsize, err>>
            ELSE /\ pc' = "raised"
                 /\ err' = "AttributeError"
                 /\ UNCHANGED <<xt, rng, noiseLog, yielded, batchsize>>
       ELSE /\ batchsize' = Len(xtArg)
            /\ xt' = xtArg
            /\ yielded' = <<xt'>>
            /\ pc' = "suspended"
            /\ UNCHANGED <<rng, noiseLog, err>>
    /\ UNCHANGED <<schedVars, fwVars, trainVars, gtsVars, batchsizeArg, fn, model, trajectory, gam, mu2, xtArg, eps, i,
                   modelCalls, epsLog>>

\* samples, diffusion.py:185-189: the tensor assigned to xt
NewXt(x, e, eprev, n, sig, sig_prev, g, m2, noise) ==
    [j \in 1..Len(x) |->
        Update(x[j], EpsAv(e[j], IF n = 0 THEN NaN ELSE eprev[j], g, n),
               sig, sig_prev, m2, noise[j])]

InversionNewXtReversed(x, e, eprev, n, sig, sig_prev, g, m2, noise) ==
    [j \in 1..Len(x) |->
        Update(x[j], EpsAv(e[j], IF n = 0 THEN NaN ELSE eprev[j], g, n),
               sig_prev, sig, m2, noise[j])]

\* DDIM_inversion, diffusion.py:232-236: the tensor assigned to xt
InversionNewXt(x, e, eprev, n, sig, sig_prev, g, m2, noise) ==
    [j \in 1..Len(x) |->
        Update(x[j], EpsAv(e[j], IF n = 0 THEN NaN ELSE eprev[j], g, n),
               sig, sig_prev, m2, noise[j])]

\* a later next(): one pass of the loop at diffusion.py:184-192 (231-237),
\* with a model that answers e
Step(e) ==
    /\ pc = "suspended"
    /\ i + 1 < Len(trajectory)
    /\ requests' = requests + 1
    /\ otherDraws' = 0
    /\ LET sig == trajectory[i + 1]
           sig_prev == trajectory[i + 2]
           epsNew == ModelOut(xt, e)
       IN  /\ eps' = epsNew
           /\ epsLog' = Append(epsLog, epsNew)
           /\ modelCalls' = modelCalls + 1
           /\ IF HasRandInput(model)
              THEN LET ri == RandInput(rng, batchsize)
                   IN  /\ xt' = IF fn = "samples"
                                 THEN NewXt(xt, epsNew, eps, i, sig, sig_prev,
                                            gam, mu2, ri.tensor)
                                 ELSE InversionNewXt(xt, epsNew, eps, i, sig,
                                                     sig_prev, gam, mu2,
                                                     ri.tensor)
                       /\ rng' = ri.rng
                       /\ noiseLog' = Append(noiseLog, ri.tensor)
                       /\ yielded' = Append(yielded, xt')
                       /\ i' = i + 1
                       /\ UNCHANGED <<pc, err>>
              ELSE /\ pc' = "raised"
                   /\ err' = "AttributeError"
                   /\ UNCHANGED <<xt, rng, noiseLog, yielded, i>>
    /\ UNCHANGED <<schedVars, fwVars, trainVars, gtsVars, batchsizeArg, fn, model, trajectory, gam, mu2, xtArg, batchsize>>

\* a next() after the last pair: the loop ends and the generator returns
Finish ==
    /\ pc = "suspended"
    /\ i + 1 >= Len(trajectory)
    /\ requests' = requests + 1
    /\ otherDraws' = 0
    /\ pc' = "finished"
    /\ UNCHANGED <<schedVars, fwVars, trainVars, gtsVars, batchsizeArg, rng, fn, model, trajectory, gam, mu2, xtArg,
                   batchsize, xt, eps, i, err, yielded, modelCalls, noiseLog,
                   epsLog>>

\* between two next() calls the consumer, or code it calls, draws one value
\* from torch's global generator (torch.randint at diffusion.py:54,
\* torch.randn_like at diffusion.py:102)
OtherDraw ==
    /\ pc \in {"created", "suspended"}
    /\ otherDraws < MaxOther
    /\ rng' = NextRng(rng)
    /\ otherDraws' = otherDraws + 1
    /\ UNCHANGED <<schedVars, fwVars, trainVars, gtsVars, batchsizeArg, fn, model, trajectory, gam, mu2, xtArg,
                   batchsize, xt, eps, i, pc, err, yielded, modelCalls,
                   noiseLog, epsLog, requests>>

NextSampler == Start \/ (\E e \in EpsVals : Step(e)) \/ Finish \/ OtherDraw

SpecSampler == InitSampler /\ [][NextSampler]_vars

\* ---------------------------------------------------------- model(x, sigma)
Shapes == UNION {[1..r -> 1..MaxDim] : r \in 0..MaxRank}

\* Tensor.squeeze(): the shape without its dimensions of size 1
Squeeze(shape) == SelectSeq(shape, LAMBDA d : d # 1)

\* get_sigma_embeds(batches, sigma), model.py:11-14: whether the shape passes
SigmaEmbedsOk(batches, shape) == shape = <<>> \/ shape = <<batches>>

\* whether model(x, sigma) gets past its sigma shape check:
\* model.py:50 and 229 squeeze sigma first, model.py:74 does not
ForwardOk(kind, batches, shape) ==
    IF kind = "IdealDenoiser"
    THEN shape = <<>>
    ELSE SigmaEmbedsOk(batches, Squeeze(shape))

InitForward ==
    /\ SchedIdle /\ SampIdle /\ TrainIdle /\ GtsIdle
    /\ rng = 0
    /\ FwIdle

\* model(x, sigma) with x.shape[0] = b and sigma.shape = shape
Forward(kind, b, shape) ==
    /\ fwResult = "none"
    /\ fwModel' = kind
    /\ fwBatch' = b
    /\ fwShape' = shape
    /\ fwResult' = IF ForwardOk(kind, b, shape) THEN "ok" ELSE "AssertionError"
    /\ UNCHANGED <<schedVars, rng, sampVars, trainVars, gtsVars>>

NextForward ==
    \E kind \in Models, b \in 1..MaxDim, shape \in Shapes : Forward(kind, b, shape)

SpecForward == InitForward /\ [][NextForward]_vars

\* ------------------------------------------------------------ training_loop
UpdateBeforeYield ==
    <<"zero_grad", "generate_train_sample", "model", "MSELoss", "backward", "step">>

\* diffusion.py:123-133, the part of one batch before the yield
BeforeYield == <<"zero_grad", "generate_train_sample", "model", "MSELoss">>

\* diffusion.py:135-136, the part of one batch after the yield
AfterYield == <<"backward", "step">>

\* number of optimizer.step() calls among ops
StepsIn(ops) == Cardinality({k \in 1..Len(ops) : ops[k] = "step"})

\* generate_train_sample (diffusion.py:91-103) draws b indices with
\* torch.randint and one normal value per example with torch.randn_like
DrawsIn(ops, b) ==
    2 * b * Cardinality({k \in 1..Len(ops) : ops[k] = "generate_train_sample"})

InitTrain ==
    /\ SchedIdle /\ SampIdle /\ FwIdle /\ GtsIdle
    /\ rng = 0
    /\ tPc = "created"
    /\ epochs \in 0..MaxEpochs
    /\ loaderLen \in 0..MaxLoader
    /\ x0Batch \in 1..MaxBatch
    /\ epoch = 0 /\ batch = 0
    /\ records = <<>> /\ updates = 0 /\ lastOps = <<>>

\* SimpleNamespace(**locals()) at line 134: the record refers to the model,
\* so it shows the parameters as they are when it is yielded
Record == [epoch |-> epoch', batch |-> batch', updates |-> updates']

\* first next(): lines 118-120, then the first batch up to its yield; with
\* no batch at all the loops end and the generator returns
TrainStart ==
    /\ tPc = "created"
    /\ LET more == epochs > 0 /\ loaderLen > 0
       IN  /\ lastOps' = IF more THEN BeforeYield ELSE <<>>
           /\ tPc' = IF more THEN "atYield" ELSE "finished"
           /\ epoch' = 0 /\ batch' = 0
           /\ updates' = updates + StepsIn(lastOps')
           /\ rng' = Advance(rng, DrawsIn(lastOps', x0Batch))
           /\ records' = IF more THEN Append(records, Record) ELSE records
    /\ UNCHANGED <<schedVars, sampVars, fwVars, gtsVars, epochs, loaderLen, x0Batch>>

\* a later next(): lines 135-136 of the batch just yielded, then the next
\* batch (of this epoch, or the first of the next) up to its yield
TrainResume ==
    /\ tPc = "atYield"
    /\ LET inEpoch == batch + 1 < loaderLen
           more == inEpoch \/ epoch + 1 < epochs
       IN  /\ lastOps' = IF more THEN AfterYield \o BeforeYield ELSE AfterYield
           /\ tPc' = IF more THEN "atYield" ELSE "finished"
           /\ batch' = IF ~more THEN batch ELSE IF inEpoch THEN batch + 1 ELSE 0
           /\ epoch' = IF ~more \/ inEpoch THEN epoch ELSE epoch + 1
           /\ updates' = updates + StepsIn(lastOps')
           /\ rng' = Advance(rng, DrawsIn(lastOps', x0Batch))
           /\ records' = IF more THEN Append(records, Record) ELSE records
    /\ UNCHANGED <<schedVars, sampVars, fwVars, gtsVars, epochs, loaderLen, x0Batch>>

NextTrain == TrainStart \/ TrainResume

SpecTrain == InitTrain /\ [][NextTrain]_vars

\* ---------------------------------------------------- generate_train_sample
\* schedules of n distinct noise levels 1, 2, 4, ...
TrainSchedules == {[k \in 1..n |-> 2 ^ (k - 1)] : n \in 1..MaxN}

\* shapes [B, D1, ..., Dk] of a data batch
X0DimSizes == {1, 2}
X0Shapes == UNION {[1..r -> X0DimSizes] : r \in 1..MaxX0Rank}

RECURSIVE Numel(_)
Numel(shape) == IF shape = <<>> THEN 1 ELSE Head(shape) * Numel(Tail(shape))

\* torch.randint(high, (n,)) from generator state r: n integers in [0, high)
Randint(r, high, n) == [k \in 1..n |-> Advance(r, k) % high]

\* Schedule.sample_batch(x0), diffusion.py:48-54, with the generator in
\* state r: the indices drawn and the sigmas read, one per example
SampleBatch(s, r, b) ==
    LET idx == Randint(r, Len(s), b)
    IN  [idx |-> idx, vals |-> [k \in 1..b |-> GetItem(s, idx[k])], shape |-> <<b>>]

RECURSIVE UnsqueezeFront(_, _)
UnsqueezeFront(shape, rank) ==
    IF Len(shape) < rank THEN UnsqueezeFront(<<1>> \o shape, rank) ELSE shape

\* diffusion.py:97-98: while len(sigma.shape) < len(x0.shape):
\*                         sigma = sigma.unsqueeze(-1)
RECURSIVE UnsqueezeTo(_, _)
UnsqueezeTo(shape, rank) ==
    IF Len(shape) < rank THEN UnsqueezeTo(Append(shape, 1), rank) ELSE shape

InitTrainSample ==
    /\ SampIdle /\ FwIdle /\ TrainIdle /\ GtsIdle
    /\ sigmas \in TrainSchedules
    /\ steps = -1 /\ indices = <<>> /\ out = <<>>
    /\ rng \in 0..(RngMod - 1)

\* generate_train_sample(x0, schedule) with x0.shape = shape
GenerateTrainSample(shape) ==
    /\ x0Shape = <<>>
    /\ LET sb == SampleBatch(sigmas, rng, shape[1])
       IN  /\ x0Shape' = shape
           /\ drawn' = sb.idx
           /\ sigmaVals' = sb.vals
           /\ sigmaShape' = UnsqueezeTo(sb.shape, Len(shape))
           /\ epsShape' = shape
           /\ rng' = Advance(rng, shape[1] + Numel(shape))
    /\ UNCHANGED <<schedVars, sampVars, fwVars, trainVars>>

NextTrainSample == \E shape \in X0Shapes : GenerateTrainSample(shape)

SpecTrainSample == InitTrainSample /\ [][NextTrainSample]_vars

Schedules == UNION {[1..n -> SigmaVals] : n \in 1..MaxN}


InitSchedule ==
    /\ sigmas \in Schedules
    /\ steps = -1
    /\ indices = <<>>
    /\ out = <<>>
    /\ rng = 0
    /\ SampIdle /\ FwIdle /\ TrainIdle /\ GtsIdle

\* schedule.sample_sigmas(st)
CallSampleSigmas(st) ==
    /\ steps' = st
    /\ indices' = SampleIndices(Len(sigmas), st)
    /\ out' = SampleSigmas(sigmas, st)
    /\ UNCHANGED <<sigmas, rng, sampVars, fwVars, trainVars, gtsVars>>

NextSchedule == \E st \in 0..MaxSteps : CallSampleSigmas(st)

SpecSchedule == InitSchedule /\ [][NextSchedule]_vars

NonDecreasing(s) == \A a, b \in 1..Len(s) : a <= b => s[a] <= s[b]
Called == steps >= 0

\* ------------------------------------------------- claims on sample_sigmas

C2_SpreadOverIndexRange ==
    (Called /\ steps >= 1) =>
        /\ \A k \in 0..(steps - 1) :
              \E ix \in 0..(Len(sigmas) - 1) :
                  /\ 2 * Abs(ix * steps - (Len(sigmas) - 1) * (steps - k)) <= steps
                  /\ out[k + 1] = sigmas[ix + 1]
        /\ (sigmas = <<1, 2, 4, 8>> /\ steps = 3) =>
              (indices = <<3, 2, 1>> /\ out = <<8, 4, 2, 0>>)

\* C2 (amended): the k-th value is the entry at index r - 1, where r is
\* the integer nearest to N*(1 - k/steps), ties going to the even integer;
\* r = 0 gives index -1, which reads the last entry.  [1,2,4,8] with
\* steps = 3 reads indices [3,2,0] and returns [8,4,1,1].
C2_TrailingIndices ==
    (Called /\ steps >= 1) =>
        /\ \A k \in 0..(steps - 1) :
              LET r == indices[k + 1] + 1
                  d == 2 * Abs(r * steps - Len(sigmas) * (steps - k))
              IN  /\ r \in 0..Len(sigmas)
                  /\ d <= steps
                  /\ (d = steps => r % 2 = 0)
                  /\ out[k + 1] = sigmas[IF r = 0 THEN Len(sigmas) ELSE r]
        /\ (sigmas = <<1, 2, 4, 8>> /\ steps = 3) =>
              (indices = <<3, 2, 0>> /\ out = <<8, 4, 1, 1>>)

C2_Witness ==
    Called /\ sigmas = <<1, 2, 4, 8>> /\ steps = 3 /\ out = <<8, 4, 1, 1>>

\* C3: for a non-decreasing Schedule and steps >= 1 (also steps > N), the
\* returned sequence is weakly decreasing and every index read is in
\* [0, N-1].
C3_WeaklyDecreasingInRange ==
    (Called /\ steps >= 1 /\ NonDecreasing(sigmas)) =>
        /\ \A k \in 1..(Len(out) - 1) : out[k + 1] <= out[k]
        /\ \A k \in 1..Len(indices) : indices[k] \in 0..(Len(sigmas) - 1)

\* ------------------------------------- claims on samples / DDIM_inversion
Ended == pc \in {"finished", "raised"}
HasNaN(t) == \E j \in 1..Len(t) : t[j].nan

\* C4: consumed to exhaustion, the generator has yielded exactly steps+1
\* tensors for a trajectory of steps+1 sigmas, the first being the initial
\* state, and then it is finished.
C4_YieldsStepsPlusOne ==
    Ended =>
        /\ pc = "finished"
        /\ Len(yielded) = Len(trajectory)
        /\ yielded[1] = IF xtArg = None
                        THEN InitialXt(noiseLog[1], trajectory[1])
                        ELSE xtArg

\* C5: a transition whose sig_prev^2 - sig_p^2 is negative fails at once:
\* no state is yielded for it and no yielded tensor holds a NaN.
C5_NegativeRadicandRaises ==
    /\ \A k \in 1..i : Rad16(trajectory[k], trajectory[k + 1], mu2) >= 0
    /\ \A k \in 1..Len(yielded) : ~HasNaN(yielded[k])

\* C6: with any of the three models, xt omitted or supplied, the sampler
\* never fails at model.rand_input for lack of the method.
C6_EveryModelHasRandInput ==
    err # "AttributeError"
\* C7: rand_input(batchsize) depends on batchsize alone: whatever was
\* drawn before or between the calls, every call of a run returns the
\* tensor a generator freshly seeded with 42 gives, so the noise injected
\* is the same at every step and is the tensor the random initial state
\* was made of.
C7_RandInputDeterministic ==
    /\ \A k \in 1..Len(noiseLog) :
          /\ noiseLog[k] = noiseLog[1]
          /\ noiseLog[k] = Randn(ManualSeed(seed), batchsize)
    /\ (xtArg = None /\ Len(yielded) >= 1) =>
          \A k \in 1..Len(noiseLog) :
              yielded[1] = InitialXt(noiseLog[k], trajectory[1])

C7_Witness ==
    /\ xtArg = None /\ Len(noiseLog) >= 3 /\ otherDraws >= 1
    /\ rng # Advance(ManualSeed(seed), batchsize)

\* C9: with mu = 0 every completed transition gives
\* xt - (sig - sig_prev) * eps_avg, with no share of the rand_input tensor;
\* with gam = 1, the one-step trajectory [sigma0, 0] and a model that
\* returns zero, the final state is the initial xt.
C9_MuZeroDeterministicUpdate ==
    (mu2 = 0) =>
        /\ \A k \in 1..i : \A j \in 1..Len(yielded[k]) :
              LET e == epsLog[k][j].det
                  eav == IF k = 1 THEN e
                         ELSE gam * e + (1 - gam) * epsLog[k - 1][j].det
              IN  yielded[k + 1][j] =
                      Num(yielded[k][j].det
                            - 4 * (trajectory[k] - trajectory[k + 1]) * eav)
        /\ ( /\ gam = 1 /\ Len(trajectory) = 2 /\ trajectory[2] = 0 /\ i = 1
             /\ \A j \in 1..Len(epsLog[1]) : epsLog[1][j] = Num(0) )
           => yielded[2] = yielded[1]

C9_Witness ==
    /\ mu2 = 0 /\ gam = 1 /\ Len(trajectory) = 2 /\ trajectory[1] = 2
    /\ trajectory[2] = 0 /\ i = 1 /\ epsLog[1] = <<Num(0), Num(0)>>
    /\ xtArg = XtOf(2) /\ yielded[2] = xtArg /\ Len(noiseLog) = 1
\* ---------------------------------------------------- claims on the models

\* C8: a sigma outside the shape contract is rejected: TimeInputMLP and DiT
\* accept only shape [] or [B] / [B,1,...,1], IdealDenoiser only shape [].
C8_SigmaContractEnforced ==
    (fwResult # "none") =>
        ( fwResult = "ok" <=>
            IF fwModel = "IdealDenoiser"
            THEN fwShape = <<>>
            ELSE \/ fwShape = <<>>
                 \/ /\ fwShape[1] = fwBatch
                    /\ \A k \in 2..Len(fwShape) : fwShape[k] = 1 )

\* ------------------------------------------------- claims on training_loop

\* C10: one record per data batch; a batch runs zero_grad, the draw of
\* (sigma, eps), the model and the loss, then yields, and runs backward and
\* the optimizer step only when resumed; so the k-th record is yielded with
\* exactly k-1 updates applied, and a loop left at a record has not applied
\* that batch's update.
C10_RecordBeforeUpdate ==
    /\ \A k \in 1..Len(records) :
          records[k] = [epoch |-> (k - 1) \div loaderLen,
                        batch |-> (k - 1) % loaderLen,
                        updates |-> k - 1]
    /\ (tPc = "atYield") =>
          /\ updates = Len(records) - 1
          /\ lastOps = IF Len(records) = 1
                       THEN <<"zero_grad", "generate_train_sample", "model", "MSELoss">>
                       ELSE <<"backward", "step", "zero_grad",
                              "generate_train_sample", "model", "MSELoss">>
    /\ (tPc = "finished") =>
          /\ Len(records) = epochs * loaderLen
          /\ updates = Len(records)
          /\ (Len(records) > 0 => lastOps = <<"backward", "step">>)

C10_Witness ==
    /\ tPc = "atYield" /\ Len(records) = 3 /\ updates = 2
    /\ records[3].epoch = 1 /\ loaderLen = 2
\* ----------------------------------------- claims on generate_train_sample

\* C11: for x0 of shape [B, D1, ..., Dk] the returned sigma has shape
\* [B, 1, ..., 1] of x0's rank, eps has x0's shape, and every sigma value is
\* the stored entry at a drawn index in [0, N).
C11_TrainSampleShapes ==
    (x0Shape # <<>>) =>
        /\ Len(sigmaShape) = Len(x0Shape)
        /\ sigmaShape[1] = x0Shape[1]
        /\ \A k \in 2..Len(sigmaShape) : sigmaShape[k] = 1
        /\ epsShape = x0Shape
        /\ Len(sigmaVals) = x0Shape[1]
        /\ Len(drawn) = x0Shape[1]
        /\ \A k \in 1..Len(sigmaVals) :
              /\ drawn[k] \in 0..(Len(sigmas) - 1)
              /\ sigmaVals[k] = sigmas[drawn[k] + 1]

C11_Witness ==
    /\ Len(x0Shape) = 4 /\ x0Shape[1] = 2 /\ x0Shape[4] = 2
    /\ sigmaShape = <<2, 1, 1, 1>> /\ Len(sigmas) = 4
    /\ sigmaVals[1] # sigmaVals[2]
\* ------------------------------------------------- claims on the sampler

\* the rand_input tensor used by completed transition k: without a supplied
\* xt the first call made the initial state
NoiseOf(k) == noiseLog[IF xtArg = None THEN k + 1 ELSE k]

\* C12: in every completed transition eps is the model's output at the
\* current xt, eps_avg is eps on the first transition and
\* gam*eps + (1-gam)*eps_prev on every later one, eps_prev being the model's
\* raw output of the transition before; the new state is
\* xt - (sig - sig_p)*eps_avg + eta*rand_input(batchsize); and the batch
\* size is xt.shape[0] whenever xt was supplied, whatever batchsize was
\* passed.
C12_AveragedNoiseAndUpdate ==
    /\ \A k \in 1..i :
          /\ \E e \in EpsVals : epsLog[k] = ModelOut(yielded[k], e)
          /\ Len(yielded[k + 1]) = Len(yielded[k])
          /\ \A j \in 1..Len(yielded[k]) :
                LET e == epsLog[k][j]
                    raw == epsLog[k - 1][j]
                    eav == IF k = 1 THEN e
                           ELSE IF e.nan \/ raw.nan THEN NaN
                           ELSE Num(gam * e.det + (1 - gam) * raw.det)
                IN  yielded[k + 1][j] =
                        Update(yielded[k][j], eav, trajectory[k],
                               trajectory[k + 1], mu2, NoiseOf(k)[j])
    /\ (pc # "created") =>
          /\ batchsize = IF xtArg = None THEN batchsizeArg ELSE Len(xtArg)
          /\ \A k \in 1..Len(noiseLog) : Len(noiseLog[k]) = batchsize
          /\ \A k \in 1..Len(yielded) : Len(yielded[k]) = batchsize

\* three transitions with gam = 2 whose raw outputs 0, 1, 1 differ from
\* their averages 0, 2, 1, on a supplied xt of two examples with batchsize 1
C12_Witness ==
    /\ gam = 2 /\ mu2 = 0 /\ i = 3
    /\ xtArg = XtOf(2) /\ batchsizeArg = 1
    /\ trajectory = <<2, 1, 2, 1>>
    /\ epsLog = <<ModelOut(xtArg, 0), ModelOut(xtArg, 1), ModelOut(xtArg, 1)>>
    /\ Len(noiseLog) = 3 /\ Len(noiseLog[3]) = 2
    /\ yielded[4][1] = Num(4 - 0 + 8 - 4)
C14_InversionSameAsSamples ==
    (xtArg # None) =>
        /\ (yielded # <<>>) => yielded[1] = xtArg
        /\ xtArg = XtOf(Len(xtArg))
        /\ \A k \in 1..i :
              LET prev == IF k = 1 THEN None ELSE epsLog[k - 1]
              IN  /\ yielded[k + 1] =
                        NewXt(yielded[k], epsLog[k], prev, k - 1,
                              trajectory[k], trajectory[k + 1], gam, mu2,
                              NoiseOf(k))
                  /\ yielded[k + 1] =
                        InversionNewXt(yielded[k], epsLog[k], prev, k - 1,
                                       trajectory[k], trajectory[k + 1], gam,
                                       mu2, NoiseOf(k))
        /\ (pc = "finished") => Len(yielded) = Len(trajectory)
        /\ (pc = "raised") => (~HasRandInput(model) /\ Len(yielded) = 1)

C14_Witness ==
    /\ fn = "DDIM_inversion" /\ xtArg = XtOf(2) /\ pc = "finished"
    /\ Len(yielded) = 4 /\ gam = 2 /\ mu2 = 1
    /\ epsLog[1] # epsLog[2]
    /\ ~HasNaN(yielded[4]) /\ yielded[4][1].stoch # <<>>
    /\ yielded[4] # yielded[1] /\ yielded[1] = xtArg

====
